---- MODULE Spec2Model ----
(***************************************************************************)
(* The order-lifecycle layer of the trading client (class TradingClient):  *)
(* construction from a TradingConfig, the asynchronous lookup of the       *)
(* signer's address, and the public operations placeOrder, cancelOrder,    *)
(* cancelOrders, getOpenOrders, getOrder and getWalletAddress in front of  *)
(* the exchange gateway (ClobClient).                                      *)
(*                                                                         *)
(* JavaScript values are tagged records: the field t is the type tag.      *)
(* Numbers are fixed-point, counted in units of 1/Scale (0.65 is 65).      *)
(* Numeric text sent by the exchange is a sequence of characters, so that  *)
(* parseFloat is computed on it and is not the identity.                   *)
(***************************************************************************)
EXTENDS Integers, Sequences, FiniteSets, TLC

VARIABLES
    config,         \* this.config, the TradingConfig given to the constructor
    ctor,           \* how the constructor ended: returned, or threw an Error
    client,         \* this.client, the ClobClient and the arguments it got
    walletAddress,  \* this.walletAddress
    lookup,         \* the promise of signer.getAddress() and its reaction
    call,           \* the public operation in flight, and how it settled
    reads           \* what getWalletAddress() returned, by lookup situation

vars == <<config, ctor, client, walletAddress, lookup, call, reads>>

----------------------------------------------------------------------------
(* JavaScript values *)

Undef == [t |-> "undefined"]
Null == [t |-> "null"]
NaN == [t |-> "NaN"]
Str(s) == [t |-> "string", v |-> s]
Num(n) == [t |-> "number", v |-> n]
Text(s) == [t |-> "text", v |-> s]

\* Units per 1 of the fixed-point numbers: a price of 0.65 is 65.
Scale == 100

\* ToBoolean, as `!x`, `x && y`, `x || y` and `x ? a : b` apply it.
Truthy(x) ==
    CASE x.t = "undefined" -> FALSE
      [] x.t = "null" -> FALSE
      [] x.t = "NaN" -> FALSE
      [] x.t = "string" -> x.v # ""
      [] x.t = "text" -> x.v # <<>>
      [] x.t = "number" -> x.v # 0
      [] OTHER -> TRUE

\* x || y
OrElse(x, y) == IF Truthy(x) THEN x ELSE y

\* obj?.name
Field(obj, name) ==
    IF obj.t = "object" /\ name \in DOMAIN obj THEN obj[name] ELSE Undef

----------------------------------------------------------------------------
(* Configuration *)

DefaultHost == Str("https://clob.polymarket.com")
DefaultChainId == 137

MsgNoMode == "Trading configuration must include either 'backend' or 'frontend' mode. For bots/servers use 'backend' with privateKey. For web apps use 'frontend' with signer."
MsgInvalidConfig == "Invalid trading configuration"

Signers ==
    { [t |-> "object", id |-> "S1", hasGetAddress |-> TRUE],
      [t |-> "object", id |-> "S2", hasGetAddress |-> FALSE] }

BackendBlocks ==
    {Undef} \cup [t : {"object"}, privateKey : {Str(""), Str("0xKEY1")}]

FrontendBlocks ==
    {Undef} \cup [t : {"object"}, signer : {Undef} \cup Signers]

BuilderBlocks ==
    {Undef} \cup
    [t : {"object"},
     key : {Undef, Str("bk")},
     secret : {Undef, Str("bs")},
     passphrase : {Undef, Str("bp")},
     signingServerUrl : {Undef, Str("https://sign.example")}]

Configs ==
    [t : {"object"},
     host : {Undef, Str("https://clob.test")},
     chainId : {Undef, Num(80002 * Scale)},
     builder : BuilderBlocks,
     backend : BackendBlocks,
     frontend : FrontendBlocks]

\* Addresses a signer's getAddress() may resolve with.
SignerAddresses == {Str("0xS1"), Str("0xS1b")}

\* new ethers.Wallet(privateKey).address: the address derived from the key.
AddressOf(key) == Str("addr(" \o key.v \o ")")

Wallet(key) == [t |-> "object", kind |-> "wallet", address |-> AddressOf(key)]

\* A faulty apiCreds: the key alone decides.
ApiCredsKeyOnly(cfg) ==
    IF Truthy(Field(cfg.builder, "key"))
    THEN [t |-> "object",
          key |-> cfg.builder.key,
          secret |-> cfg.builder.secret,
          passphrase |-> cfg.builder.passphrase]
    ELSE Undef

\* apiCreds: the three builder credentials when all are given.
ApiCreds(cfg) ==
    IF /\ Truthy(Field(cfg.builder, "key"))
       /\ Truthy(Field(cfg.builder, "secret"))
       /\ Truthy(Field(cfg.builder, "passphrase"))
    THEN [t |-> "object",
          key |-> cfg.builder.key,
          secret |-> cfg.builder.secret,
          passphrase |-> cfg.builder.passphrase]
    ELSE Undef

RemoteBuilderConfig(url) == [t |-> "object", kind |-> "remote", url |-> url]
LocalBuilderConfig(creds) == [t |-> "object", kind |-> "local", creds |-> creds]

\* A faulty builderConfig: the credentials first, then the signing server.
BackendBuilderConfigCredsFirst(cfg) ==
    IF Truthy(ApiCreds(cfg))
    THEN LocalBuilderConfig(ApiCreds(cfg))
    ELSE IF Truthy(Field(cfg.builder, "signingServerUrl"))
         THEN RemoteBuilderConfig(cfg.builder.signingServerUrl)
         ELSE Undef

\* builderConfig of backend mode: the signing server first, then the credentials.
BackendBuilderConfig(cfg) ==
    IF Truthy(Field(cfg.builder, "signingServerUrl"))
    THEN RemoteBuilderConfig(cfg.builder.signingServerUrl)
    ELSE IF Truthy(ApiCreds(cfg))
         THEN LocalBuilderConfig(ApiCreds(cfg))
         ELSE Undef

\* builderConfig of frontend mode: the signing server or nothing.
FrontendBuilderConfig(cfg) ==
    IF Truthy(Field(cfg.builder, "signingServerUrl"))
    THEN RemoteBuilderConfig(cfg.builder.signingServerUrl)
    ELSE Undef

\* new ClobClient(host, chainId, signer, creds, SignatureType.EOA, ..., builderConfig)
ClobClient(host, chainId, signer, creds, builderConfig) ==
    [t |-> "object",
     host |-> host,
     chainId |-> chainId,
     signer |-> signer,
     creds |-> creds,
     signatureType |-> "EOA",
     builderConfig |-> builderConfig]

NoLookup == [st |-> "none", addr |-> Undef]
PendingLookup == [st |-> "pending", addr |-> Undef]

\* How `new TradingClient(config)` ended, if it was called.
NotCalled == [st |-> "new", message |-> ""]
Returned == [st |-> "returned", message |-> ""]
Threw(msg) == [st |-> "threw", message |-> msg]

\* A faulty branch: no check of the blocks, and an else in place of the else-if.
ModeOfBranchless(cfg) ==
    IF Truthy(Field(cfg.backend, "privateKey")) THEN "backend" ELSE "frontend"

\* The branch the constructor takes.
ModeOf(cfg) ==
    IF ~Truthy(cfg.backend) /\ ~Truthy(cfg.frontend) THEN "missing"
    ELSE IF Truthy(Field(cfg.backend, "privateKey")) THEN "backend"
    ELSE IF Truthy(Field(cfg.frontend, "signer")) THEN "frontend"
    ELSE "invalid"

\* The constructor: the fields of the instance when it returns or throws.
Construct(cfg) ==
    LET host == OrElse(cfg.host, DefaultHost)
        chainId == OrElse(cfg.chainId, Num(DefaultChainId * Scale))
        mode == ModeOf(cfg)
        signer == Field(cfg.frontend, "signer")
    IN  CASE mode = "missing" ->
               [ctor |-> Threw(MsgNoMode), client |-> Undef,
                walletAddress |-> Undef, lookup |-> NoLookup]
          [] mode = "backend" ->
               [ctor |-> Returned,
                client |-> ClobClient(host, chainId, Wallet(cfg.backend.privateKey),
                                      ApiCreds(cfg), BackendBuilderConfig(cfg)),
                walletAddress |-> Wallet(cfg.backend.privateKey).address,
                lookup |-> NoLookup]
          [] mode = "frontend" ->
               [ctor |-> Returned,
                client |-> ClobClient(host, chainId, signer, Undef,
                                      FrontendBuilderConfig(cfg)),
                walletAddress |-> Undef,
                lookup |-> IF signer.t = "object" /\ signer.hasGetAddress
                           THEN PendingLookup ELSE NoLookup]
          [] OTHER ->
               [ctor |-> Threw(MsgInvalidConfig), client |-> Undef,
                walletAddress |-> Undef, lookup |-> NoLookup]

----------------------------------------------------------------------------
(* The identity: signer.getAddress().then(addr => this.walletAddress = addr) *)

NotRead == [t |-> "notread"]
NoReads == [pending |-> NotRead, absent |-> NotRead]

\* The call slot: the operation, its arguments, the gateway calls it made (sent),
\* the gateway's answer (got), and the value returned or the error thrown.
Idle == [op |-> "none", st |-> "idle", args |-> Undef, sent |-> <<>>,
         got |-> Undef, result |-> Undef, error |-> Undef]

Constructed == ctor.st = "returned"

\* The signer fulfils the promise of getAddress(); the reaction is queued.
SignerResolve(addr) ==
    /\ Constructed
    /\ lookup.st = "pending"
    /\ lookup' = [st |-> "fulfilled", addr |-> addr]
    /\ UNCHANGED <<config, ctor, client, walletAddress, call, reads>>

\* The signer rejects the promise; no rejection handler is attached.
SignerReject ==
    /\ Constructed
    /\ lookup.st = "pending"
    /\ lookup' = [st |-> "rejected", addr |-> Undef]
    /\ UNCHANGED <<config, ctor, client, walletAddress, call, reads>>

\* A faulty reaction: the address is dropped.
StoredAddressNone(addr) == Undef

\* What the reaction (addr) => { this.walletAddress = addr } stores.
StoredAddress(addr) == addr

\* The reaction of .then runs.
OnAddress ==
    /\ lookup.st = "fulfilled"
    /\ walletAddress' = StoredAddress(lookup.addr)
    /\ lookup' = [lookup EXCEPT !.st = "delivered"]
    /\ UNCHANGED <<config, ctor, client, call, reads>>

\* getWalletAddress(): what the method returns in the current state.
getWalletAddress == walletAddress

\* The identity can no longer become available: no lookup was issued, or it failed.
PermanentlyAbsent ==
    /\ Field(client, "signer") \in Signers
    /\ lookup.st \in {"none", "rejected"}

\* A caller calls getWalletAddress() and keeps what it got.
GetWalletAddress ==
    /\ Constructed
    /\ reads' = IF lookup.st = "pending"
                THEN [reads EXCEPT !.pending = getWalletAddress]
                ELSE IF PermanentlyAbsent
                THEN [reads EXCEPT !.absent = getWalletAddress]
                ELSE reads
    /\ reads' # reads
    /\ UNCHANGED <<config, ctor, client, walletAddress, lookup, call>>

----------------------------------------------------------------------------
(* Numbers and numeric text *)

Chars == {"0", "5", "-", ".", "x"}
DigitChars == {"0", "5"}

DigitVal(c) == IF c = "5" THEN 5 ELSE 0

\* End of the run of digits of s that starts at position i.
DigitsEnd(s, i) ==
    LET stops == {j \in i..(Len(s) + 1) : j = Len(s) + 1 \/ s[j] \notin DigitChars}
    IN  CHOOSE j \in stops : \A k \in stops : j <= k

RECURSIVE IntVal(_, _, _)
\* The integer written by the digits s[i..j-1].
IntVal(s, i, j) ==
    IF j <= i THEN 0 ELSE 10 * IntVal(s, i, j - 1) + DigitVal(s[j - 1])

RECURSIVE Pow10(_)
Pow10(n) == IF n = 0 THEN 1 ELSE 10 * Pow10(n - 1)

RECURSIVE FracVal(_, _, _, _)
\* The fraction written by the digits s[i..j-1] after the point, in units of 1/Scale;
\* d is the place of s[i].
FracVal(s, i, j, d) ==
    IF j <= i THEN 0
    ELSE (DigitVal(s[i]) * Scale) \div Pow10(d) + FracVal(s, i + 1, j, d + 1)

\* parseFloat on a string: sign, digits, point, digits; the longest such prefix,
\* and NaN when it holds no digit.
ParseText(s) ==
    LET signed == Len(s) >= 1 /\ s[1] \in {"-", "+"}
        start == IF signed THEN 2 ELSE 1
        sign == IF signed /\ s[1] = "-" THEN -1 ELSE 1
        ie == DigitsEnd(s, start)
        hasDot == ie <= Len(s) /\ s[ie] = "."
        fe == IF hasDot THEN DigitsEnd(s, ie + 1) ELSE ie
        nFrac == IF hasDot THEN fe - (ie + 1) ELSE 0
    IN  IF ie - start = 0 /\ nFrac = 0
        THEN NaN
        ELSE Num(sign * (IntVal(s, start, ie) * Scale
                         + (IF hasDot THEN FracVal(s, ie + 1, fe, 1) ELSE 0)))

\* parseFloat(x): x is converted to a string first; "undefined" and "null" hold no digit.
ParseFloat(x) == IF x.t = "text" THEN ParseText(x.v) ELSE NaN

\* a - b on numbers
Sub(a, b) == IF a.t = "number" /\ b.t = "number" THEN Num(a.v - b.v) ELSE NaN

\* x <= n and x >= n on numbers; false on NaN
Lte(x, n) == x.t = "number" /\ x.v <= n
Gte(x, n) == x.t = "number" /\ x.v >= n

----------------------------------------------------------------------------
(* Errors *)

Error(msg) == [t |-> "error", kind |-> "Error", message |-> msg]

\* error.message as a template literal prints it
MessageOf(e) == IF e.t = "error" THEN e.message ELSE "undefined"

\* catch (error) { throw new Error(`${prefix}${error.message}`) }
Wrap(prefix, e) == Error(prefix \o MessageOf(e))

PlaceOrderPrefix == "Failed to place order: "
CancelOrderPrefix == "Failed to cancel order: "
CancelOrdersPrefix == "Failed to cancel orders: "
GetOpenOrdersPrefix == "Failed to get open orders: "
GetOrderPrefix == "Failed to get order: "

MsgTokenId == "tokenId is required"
MsgSide == "side must be 'BUY' or 'SELL'"
MsgPrice == "price must be between 0 and 1 (e.g., 0.65 for 65 cents)"
MsgSize == "size must be greater than 0"
MsgOrderId == "orderId is required"
MsgOrderIds == "orderIds array is required"

\* A TypeError of the runtime: a property read on undefined or null, or a call of
\* a method the value does not have.
TypeError == [t |-> "error", kind |-> "TypeError", message |-> "TypeError"]

\* The operation of call slot c throws e.
Throws(c, e) == [c EXCEPT !.st = "threw", !.error = e]

\* The operation of call slot c returns r.
Returns(c, r) == [c EXCEPT !.st = "returned", !.result = r]

\* An operation throws before it has called the gateway.
Rejected(op, args, e) ==
    [op |-> op, st |-> "threw", args |-> args, sent |-> <<>>,
     got |-> Undef, result |-> Undef, error |-> e]

\* An operation calls a method of the gateway and awaits its answer.
Awaiting(op, args, method, arg) ==
    [op |-> op, st |-> "awaiting", args |-> args,
     sent |-> <<[method |-> method, arg |-> arg]>>,
     got |-> Undef, result |-> Undef, error |-> Undef]

----------------------------------------------------------------------------
(* placeOrder *)

\* A faulty validation: the ranges of price and size are not checked.
PlaceOrderInvalidNoRange(params) ==
    IF ~Truthy(params.tokenId) THEN MsgTokenId
    ELSE IF ~Truthy(params.side)
            \/ (params.side # Str("BUY") /\ params.side # Str("SELL")) THEN MsgSide
    ELSE IF ~Truthy(params.price) THEN MsgPrice
    ELSE IF ~Truthy(params.size) THEN MsgSize
    ELSE ""

\* The validation of placeOrder: the message of the first rule broken, or "".
PlaceOrderInvalid(params) ==
    IF ~Truthy(params.tokenId) THEN MsgTokenId
    ELSE IF ~Truthy(params.side)
            \/ (params.side # Str("BUY") /\ params.side # Str("SELL")) THEN MsgSide
    ELSE IF ~Truthy(params.price) \/ Lte(params.price, 0) \/ Gte(params.price, Scale)
         THEN MsgPrice
    ELSE IF ~Truthy(params.size) \/ Lte(params.size, 0) THEN MsgSize
    ELSE ""

\* A faulty mapping: the side is compared with "buy", which no valid request has.
SideEnumLowerCase(side) ==
    IF side = Str("buy") THEN [t |-> "enum", v |-> "Side.BUY"]
    ELSE [t |-> "enum", v |-> "Side.SELL"]

\* params.side === "BUY" ? Side.BUY : Side.SELL
SideEnum(side) ==
    IF side = Str("BUY") THEN [t |-> "enum", v |-> "Side.BUY"]
    ELSE [t |-> "enum", v |-> "Side.SELL"]

\* The argument of createAndPostOrder: the optional fields are spread in only
\* when `params.expiration && {...}` and `params.nonce && {...}` are objects.
WirePayload(params) ==
    LET base == [t |-> "object", tokenID |-> params.tokenId,
                 side |-> SideEnum(params.side),
                 price |-> params.price, size |-> params.size]
        e == Truthy(params.expiration)
        n == Truthy(params.nonce)
    IN  CASE e /\ n -> [t |-> "object", tokenID |-> base.tokenID, side |-> base.side,
                        price |-> base.price, size |-> base.size,
                        expiration |-> params.expiration, nonce |-> params.nonce]
          [] e /\ ~n -> [t |-> "object", tokenID |-> base.tokenID, side |-> base.side,
                         price |-> base.price, size |-> base.size,
                         expiration |-> params.expiration]
          [] ~e /\ n -> [t |-> "object", tokenID |-> base.tokenID, side |-> base.side,
                         price |-> base.price, size |-> base.size,
                         nonce |-> params.nonce]
          [] OTHER -> base

\* placeOrder up to its await.
PlaceOrderStart(params) ==
    IF PlaceOrderInvalid(params) # ""
    THEN Rejected("placeOrder", params,
                Wrap(PlaceOrderPrefix, Error(PlaceOrderInvalid(params))))
    ELSE Awaiting("placeOrder", params, "createAndPostOrder", WirePayload(params))

\* placeOrder after its await.
PlaceOrderAfter(c, outcome) ==
    IF ~outcome.ok
    THEN Throws(c, Wrap(PlaceOrderPrefix, outcome.error))
    ELSE IF outcome.value.t # "object"
    THEN Throws(c, Wrap(PlaceOrderPrefix, TypeError))
    ELSE Returns(c, [t |-> "object",
                    orderId |-> OrElse(Field(outcome.value, "orderID"),
                                       Field(outcome.value, "id")),
                    status |-> OrElse(Field(outcome.value, "status"), Str("success"))])

----------------------------------------------------------------------------
(* cancelOrder, cancelOrders *)

Array(s) == [t |-> "array", v |-> s]

CancelOrderStart(orderId) ==
    IF ~Truthy(orderId)
    THEN Rejected("cancelOrder", orderId,
                Wrap(CancelOrderPrefix, Error(MsgOrderId)))
    ELSE Awaiting("cancelOrder", orderId, "cancelOrder",
                  [t |-> "object", orderID |-> orderId])

\* A faulty cancelOrders: one gateway call per order id.
CancelOrdersStartOneByOne(orderIds) ==
    IF ~Truthy(orderIds) \/ (orderIds.t = "array" /\ Len(orderIds.v) = 0)
    THEN Rejected("cancelOrders", orderIds,
                Wrap(CancelOrdersPrefix, Error(MsgOrderIds)))
    ELSE [op |-> "cancelOrders", st |-> "awaiting", args |-> orderIds,
          sent |-> [i \in 1..Len(orderIds.v) |->
                       [method |-> "cancelOrder",
                        arg |-> [t |-> "object", orderID |-> orderIds.v[i]]]],
          got |-> Undef, result |-> Undef, error |-> Undef]

\* cancelOrders up to its await: one call with the whole array.
CancelOrdersStart(orderIds) ==
    IF ~Truthy(orderIds) \/ (orderIds.t = "array" /\ Len(orderIds.v) = 0)
    THEN Rejected("cancelOrders", orderIds,
                Wrap(CancelOrdersPrefix, Error(MsgOrderIds)))
    ELSE Awaiting("cancelOrders", orderIds, "cancelOrders", orderIds)

\* A faulty cancel: a failed gateway call is made once more before giving up.
CancelAfterRetry(c, outcome, prefix) ==
    IF ~outcome.ok /\ Len(c.sent) = 1
    THEN [c EXCEPT !.st = "awaiting", !.sent = Append(c.sent, c.sent[1])]
    ELSE IF ~outcome.ok
    THEN Throws(c, Wrap(prefix, outcome.error))
    ELSE Returns(c, Undef)

\* cancelOrder and cancelOrders after their await.
CancelAfter(c, outcome, prefix) ==
    IF ~outcome.ok
    THEN Throws(c, Wrap(prefix, outcome.error))
    ELSE Returns(c, Undef)

----------------------------------------------------------------------------
(* getOpenOrders, getOrder *)

\* A faulty Order of getOpenOrders: the default status of getOrder is used.
OpenOrderOfDefaultUnknown(order, now) ==
    LET sizeMatched == ParseFloat(OrElse(order.size_matched, Text(<<"0">>)))
        originalSize == ParseFloat(OrElse(order.original_size, Text(<<"0">>)))
        remainingSize == Sub(originalSize, sizeMatched)
    IN  [t |-> "object",
         orderId |-> order.id,
         tokenId |-> order.asset_id,
         side |-> order.side,
         price |-> ParseFloat(order.price),
         originalSize |-> originalSize,
         size |-> remainingSize,
         status |-> OrElse(order.status, Str("unknown")),
         timestamp |-> OrElse(order.created_at, now),
         raw |-> order]

\* The Order built from one record of getOpenOrders.
OpenOrderOf(order, now) ==
    LET sizeMatched == ParseFloat(OrElse(order.size_matched, Text(<<"0">>)))
        originalSize == ParseFloat(OrElse(order.original_size, Text(<<"0">>)))
        remainingSize == Sub(originalSize, sizeMatched)
    IN  [t |-> "object",
         orderId |-> order.id,
         tokenId |-> order.asset_id,
         side |-> order.side,
         price |-> ParseFloat(order.price),
         originalSize |-> originalSize,
         size |-> remainingSize,
         status |-> OrElse(order.status, Str("open")),
         timestamp |-> OrElse(order.created_at, now),
         raw |-> order]

\* A faulty Order: the operands of the subtraction are swapped.
OrderOfMatchedFirst(order, now) ==
    LET sizeMatched == ParseFloat(OrElse(order.size_matched, Text(<<"0">>)))
        originalSize == ParseFloat(OrElse(order.original_size, Text(<<"0">>)))
        remainingSize == Sub(sizeMatched, originalSize)
    IN  [t |-> "object",
         orderId |-> order.id,
         tokenId |-> order.asset_id,
         side |-> order.side,
         price |-> ParseFloat(order.price),
         originalSize |-> originalSize,
         size |-> remainingSize,
         status |-> OrElse(order.status, Str("unknown")),
         timestamp |-> OrElse(order.created_at, now),
         raw |-> order]

\* The Order built from the record of getOrder.
OrderOf(order, now) ==
    LET sizeMatched == ParseFloat(OrElse(order.size_matched, Text(<<"0">>)))
        originalSize == ParseFloat(OrElse(order.original_size, Text(<<"0">>)))
        remainingSize == Sub(originalSize, sizeMatched)
    IN  [t |-> "object",
         orderId |-> order.id,
         tokenId |-> order.asset_id,
         side |-> order.side,
         price |-> ParseFloat(order.price),
         originalSize |-> originalSize,
         size |-> remainingSize,
         status |-> OrElse(order.status, Str("unknown")),
         timestamp |-> OrElse(order.created_at, now),
         raw |-> order]

\* A faulty getOpenOrders: the address is handed to the gateway as a filter.
GetOpenOrdersStartFiltered(address) ==
    Awaiting("getOpenOrders", address, "getOpenOrders", address)

\* getOpenOrders up to its await: the address is not used.
GetOpenOrdersStart(address) ==
    Awaiting("getOpenOrders", address, "getOpenOrders", Undef)

GetOpenOrdersAfter(c, outcome, now) ==
    IF ~outcome.ok
    THEN Throws(c, Wrap(GetOpenOrdersPrefix, outcome.error))
    ELSE IF outcome.value.t # "array"
    THEN Throws(c, Wrap(GetOpenOrdersPrefix, TypeError))
    ELSE Returns(c, Array([i \in 1..Len(outcome.value.v) |->
                              OpenOrderOf(outcome.value.v[i], now)]))

GetOrderStart(orderId) ==
    IF ~Truthy(orderId)
    THEN Rejected("getOrder", orderId, Wrap(GetOrderPrefix, Error(MsgOrderId)))
    ELSE Awaiting("getOrder", orderId, "getOrder", orderId)

\* A faulty getOrder: a failure of the gateway is answered with null.
GetOrderAfterNullOnFailure(c, outcome, now) ==
    IF ~outcome.ok \/ ~Truthy(outcome.value)
    THEN Returns(c, Null)
    ELSE Returns(c, OrderOf(outcome.value, now))

\* getOrder after its await.
GetOrderAfter(c, outcome, now) ==
    IF ~outcome.ok
    THEN Throws(c, Wrap(GetOrderPrefix, outcome.error))
    ELSE IF ~Truthy(outcome.value)
    THEN Returns(c, Null)
    ELSE Returns(c, OrderOf(outcome.value, now))

----------------------------------------------------------------------------
(* The caller's inputs and the gateway's answers *)

MaxTextLen == 2
MaxBatch == 2
MaxOpen == 2

Texts(n) == UNION {[1..k -> Chars] : k \in 0..n}
OptTexts(n) == {Undef} \cup {Text(s) : s \in Texts(n)}

SeqsUpTo(S, n) == UNION {[1..k -> S] : k \in 0..n}

OptNums == {Undef, Num(0), Num(5 * Scale)}

PlaceRequests ==
    [t : {"object"},
     tokenId : {Str(""), Str("T1")},
     side : {Str("BUY"), Str("SELL"), Str("HOLD"), Undef},
     price : {Num(-5), Num(0), Num(1), Num(65), Num(Scale), Num(Scale + 50), NaN},
     size : {Num(-Scale), Num(0), Num(50), Num(10 * Scale), NaN},
     expiration : {Undef},
     nonce : {Undef}]
    \cup
    [t : {"object"},
     tokenId : {Str("T1")},
     side : {Str("BUY"), Str("SELL")},
     price : {Num(65)},
     size : {Num(10 * Scale)},
     expiration : OptNums,
     nonce : OptNums]

OrderIds == {Undef, Str(""), Str("O1")}

OrderIdLists == {Undef} \cup {Array(s) : s \in SeqsUpTo({Str("O1"), Str("O2")}, MaxBatch)}

Addresses == {Undef, Str("0xA"), Str("0xB")}

\* What the gateway throws: a transport failure, a rejection by the exchange,
\* or a value that is no Error.
GatewayErrors ==
    { [t |-> "error", kind |-> "transport", message |-> "socket hang up"],
      [t |-> "error", kind |-> "rejection", message |-> "not enough balance"],
      Str("down") }

PlaceReplies ==
    { [t |-> "object", orderID |-> Str("O1"), status |-> Str("matched")],
      [t |-> "object", id |-> Str("O2")],
      [t |-> "object", orderID |-> Str(""), id |-> Str("O3"), status |-> Str("")],
      Undef }

RawOrder(original, matched, price, status, created) ==
    [t |-> "object", id |-> Str("O1"), asset_id |-> Str("T1"), side |-> Str("BUY"),
     price |-> price, size_matched |-> matched, original_size |-> original,
     status |-> status, created_at |-> created]

Statuses == {Undef, Str(""), Str("LIVE")}
CreatedAts == {Undef, Num(1700 * Scale)}
Clock == {Num(1800 * Scale)}

\* The records getOrder may receive.
OneRaws ==
    {RawOrder(o, m, Text(<<".", "5">>), Undef, Undef) :
        o \in OptTexts(MaxTextLen), m \in OptTexts(MaxTextLen)}
    \cup
    {RawOrder(Text(<<"5", "0">>), Text(<<"5">>), p, s, c) :
        p \in OptTexts(MaxTextLen), s \in Statuses, c \in CreatedAts}

\* The records getOpenOrders may receive: filled in part, filled whole, a negative
\* fill, a missing and an unparseable size, an unparseable and a missing price.
ListRaws ==
    { RawOrder(Text(<<"5", "0">>), Text(<<"5">>), Text(<<".", "5">>), Undef, Undef),
      RawOrder(Text(<<"5">>), Text(<<"5">>), Text(<<".", "5">>), Undef, Undef),
      RawOrder(Text(<<"5">>), Text(<<"-", "5">>), Text(<<".", "5">>), Undef, Undef),
      RawOrder(Text(<<"5">>), Undef, Text(<<".", "5">>), Undef, Undef),
      RawOrder(Undef, Text(<<"5">>), Text(<<".", "5">>), Undef, Undef),
      RawOrder(Text(<<"x">>), Text(<<"5">>), Text(<<".", "5">>), Undef, Undef),
      RawOrder(Text(<<"5", "0">>), Text(<<"5">>), Text(<<"x">>), Str("LIVE"),
               Num(1700 * Scale)),
      RawOrder(Text(<<"5", "0">>), Text(<<"5">>), Undef, Str(""), Undef) }

\* The configurations of the runs that explore every input: a custodial client
\* and two externally-signed ones, with and without getAddress.
OpsConfigs ==
    {cfg \in Configs :
        /\ cfg.host = Undef /\ cfg.chainId = Undef /\ cfg.builder = Undef
        /\ \/ Truthy(Field(cfg.backend, "privateKey")) /\ cfg.frontend = Undef
           \/ cfg.backend = Undef /\ Truthy(Field(cfg.frontend, "signer"))}

Ok(v) == [ok |-> TRUE, value |-> v, error |-> Undef]
Fail(e) == [ok |-> FALSE, value |-> Undef, error |-> e]

FullInputs ==
    [configs |-> OpsConfigs,
     place |-> PlaceRequests,
     ids |-> OrderIds,
     lists |-> OrderIdLists,
     addrs |-> Addresses,
     placed |-> PlaceReplies,
     opened |-> {Array(s) : s \in SeqsUpTo(ListRaws, MaxOpen)},
     one |-> {Null, Undef} \cup OneRaws,
     errors |-> GatewayErrors]

\* A few inputs of each kind, for the runs that explore every configuration.
SampleInputs ==
    [configs |-> Configs,
     place |-> {r \in PlaceRequests :
                    /\ r.tokenId = Str("T1") /\ r.side = Str("BUY")
                    /\ r.price \in {Num(0), Num(65)} /\ r.size = Num(10 * Scale)
                    /\ r.expiration = Undef /\ r.nonce = Undef},
     ids |-> {Str(""), Str("O1")},
     lists |-> {Array(<<>>), Array(<<Str("O1")>>)},
     addrs |-> {Undef},
     placed |-> {[t |-> "object", orderID |-> Str("O1"), status |-> Str("matched")]},
     opened |-> {Array(<<RawOrder(Text(<<"5", "0">>), Text(<<"5">>), Text(<<".", "5">>),
                                   Undef, Undef)>>)},
     one |-> {Null},
     errors |-> {[t |-> "error", kind |-> "transport", message |-> "socket hang up"]}]

\* The answers the gateway may give to the call in flight.
Outcomes(P, method) ==
    {Fail(e) : e \in P.errors} \cup
    CASE method = "createAndPostOrder" -> {Ok(v) : v \in P.placed}
      [] method = "getOpenOrders" -> {Ok(v) : v \in P.opened}
      [] method = "getOrder" -> {Ok(v) : v \in P.one}
      [] OTHER -> {Ok(Undef)}

\* The answers to the call in flight, if there is one at the gateway.
Answers(P) ==
    IF call.st = "awaiting" THEN Outcomes(P, call.sent[1].method) ELSE {}

----------------------------------------------------------------------------
(* The public operations *)

\* A public method can be called: the constructor returned an instance, and the
\* caller is not waiting for an earlier call.
CanCall == Constructed /\ call.st = "idle"

PlaceOrder(params) ==
    /\ CanCall
    /\ call' = PlaceOrderStart(params)
    /\ UNCHANGED <<config, ctor, client, walletAddress, lookup, reads>>

CancelOrder(orderId) ==
    /\ CanCall
    /\ call' = CancelOrderStart(orderId)
    /\ UNCHANGED <<config, ctor, client, walletAddress, lookup, reads>>

CancelOrders(orderIds) ==
    /\ CanCall
    /\ call' = CancelOrdersStart(orderIds)
    /\ UNCHANGED <<config, ctor, client, walletAddress, lookup, reads>>

GetOpenOrders(address) ==
    /\ CanCall
    /\ call' = GetOpenOrdersStart(address)
    /\ UNCHANGED <<config, ctor, client, walletAddress, lookup, reads>>

GetOrder(orderId) ==
    /\ CanCall
    /\ call' = GetOrderStart(orderId)
    /\ UNCHANGED <<config, ctor, client, walletAddress, lookup, reads>>

\* The rest of the operation in flight, once the gateway has answered.
Continue(c, outcome, now) ==
    CASE c.op = "placeOrder" -> PlaceOrderAfter(c, outcome)
      [] c.op = "cancelOrder" -> CancelAfter(c, outcome, CancelOrderPrefix)
      [] c.op = "cancelOrders" -> CancelAfter(c, outcome, CancelOrdersPrefix)
      [] c.op = "getOpenOrders" -> GetOpenOrdersAfter(c, outcome, now)
      [] OTHER -> GetOrderAfter(c, outcome, now)

\* The gateway answers; the operation runs from its await to its end.
GatewayReply(outcome, now) ==
    /\ call.st = "awaiting"
    /\ call' = Continue([call EXCEPT !.got = outcome], outcome, now)
    /\ UNCHANGED <<config, ctor, client, walletAddress, lookup, reads>>

\* The caller takes the value or the error of the settled promise.
Settle ==
    /\ call.st \in {"returned", "threw"}
    /\ call' = Idle
    /\ UNCHANGED <<config, ctor, client, walletAddress, lookup, reads>>

----------------------------------------------------------------------------
(* Specifications *)

\* No instance yet.
Init ==
    /\ config = Undef
    /\ ctor = NotCalled
    /\ client = Undef
    /\ walletAddress = Undef
    /\ lookup = NoLookup
    /\ call = Idle
    /\ reads = NoReads

\* new TradingClient(cfg)
New(cfg) ==
    /\ ctor = NotCalled
    /\ config' = cfg
    /\ ctor' = Construct(cfg).ctor
    /\ client' = Construct(cfg).client
    /\ walletAddress' = Construct(cfg).walletAddress
    /\ lookup' = Construct(cfg).lookup
    /\ UNCHANGED <<call, reads>>

NextWith(P) ==
    \/ \E cfg \in P.configs : New(cfg)
    \/ \E a \in SignerAddresses : SignerResolve(a)
    \/ SignerReject
    \/ OnAddress
    \/ GetWalletAddress
    \/ \E params \in P.place : PlaceOrder(params)
    \/ \E orderId \in P.ids : CancelOrder(orderId)
    \/ \E orderIds \in P.lists : CancelOrders(orderIds)
    \/ \E address \in P.addrs : GetOpenOrders(address)
    \/ \E orderId \in P.ids : GetOrder(orderId)
    \/ \E now \in Clock :
         \E outcome \in Answers(P) : GatewayReply(outcome, now)
    \/ Settle

\* Every configuration, with a few inputs of each operation.
Next == NextWith(SampleInputs)

Spec == Init /\ [][Next]_vars

\* The reaction of a fulfilled promise is a queued job, and the job queue is drained.
FairSpec == Spec /\ WF_vars(OnAddress)

\* Every input of each operation, on a custodial client and two externally-signed ones.
NextOps == NextWith(FullInputs)

SpecOps == Init /\ [][NextOps]_vars

----------------------------------------------------------------------------
(* The configuration and the identity, as the properties speak of them *)

HasCustodialBlock == Truthy(Field(config.backend, "privateKey"))
HasExternalBlock == Truthy(Field(config.frontend, "signer"))

CustodialMode == Constructed /\ HasCustodialBlock
ExternalMode == Constructed /\ ~HasCustodialBlock

HasSigningUrl == Truthy(Field(config.builder, "signingServerUrl"))
HasAllCredentials ==
    /\ Truthy(Field(config.builder, "key"))
    /\ Truthy(Field(config.builder, "secret"))
    /\ Truthy(Field(config.builder, "passphrase"))

RemoteSigning ==
    [t |-> "object", kind |-> "remote", url |-> Field(config.builder, "signingServerUrl")]

LocalCredentials ==
    [t |-> "object", kind |-> "local",
     creds |-> [t |-> "object",
                key |-> Field(config.builder, "key"),
                secret |-> Field(config.builder, "secret"),
                passphrase |-> Field(config.builder, "passphrase")]]

ValidationMessages == {MsgTokenId, MsgSide, MsgPrice, MsgSize}

\* The request breaks a rule: empty tokenId, a side other than BUY and SELL,
\* price <= 0 or price >= 1, size <= 0.
BreaksRule(params) ==
    \/ params.tokenId = Str("")
    \/ params.side \notin {Str("BUY"), Str("SELL")}
    \/ params.price.t = "number" /\ (params.price.v <= 0 \/ params.price.v >= Scale)
    \/ params.size.t = "number" /\ params.size.v <= 0

----------------------------------------------------------------------------
(* C1 *)

----------------------------------------------------------------------------
(* C2 *)

\* C2: a configuration with both a backend block holding a private key and a
\* frontend block holding a signer makes the constructor throw; no gateway
\* client is created.
C2_BothBlocksRejected ==
    (ctor # NotCalled /\ HasCustodialBlock /\ HasExternalBlock) =>
        (ctor.st = "threw" /\ client = Undef)

----------------------------------------------------------------------------
(* C3 *)

\* C3: a configuration with neither a backend nor a frontend block makes the
\* constructor throw its configuration error, with no gateway client created
\* and no address lookup issued.
C3_NoBlockRejected ==
    (ctor # NotCalled /\ config.backend = Undef /\ config.frontend = Undef) =>
        /\ ctor = Threw(MsgNoMode)
        /\ client = Undef
        /\ lookup.st = "none"
        /\ walletAddress = Undef

\* The constructor threw on a configuration with a builder block and no auth block.
C3_Witness ==
    /\ ctor.st = "threw"
    /\ config.backend = Undef /\ config.frontend = Undef
    /\ config.builder # Undef

----------------------------------------------------------------------------
(* C4 *)

\* C4: in custodial mode getWalletAddress() returns the address derived from
\* the key in every state after construction. In externally-signed mode it
\* returns undefined in every state before the lookup has completed for the
\* client (no lookup, a pending one, a fulfilled one whose reaction has not run,
\* a failed one) and the looked-up address in every state after the reaction has
\* run; once set the address never changes; and a fulfilled lookup leads to the
\* address being returned, whatever operations are called in between.
C4_WalletAddressLifecycle ==
    /\ [](CustodialMode => getWalletAddress = AddressOf(config.backend.privateKey))
    /\ []((ExternalMode /\ lookup.st # "delivered") => getWalletAddress = Undef)
    /\ []((ExternalMode /\ lookup.st = "delivered") =>
              (getWalletAddress = lookup.addr /\ lookup.addr \in SignerAddresses))
    /\ [][getWalletAddress # Undef => getWalletAddress' = getWalletAddress]_vars
    /\ \A a \in SignerAddresses :
         (lookup.st = "fulfilled" /\ lookup.addr = a) ~> (getWalletAddress = a)

\* The looked-up address is returned while an operation awaits the gateway.
C4_Witness ==
    /\ ExternalMode
    /\ lookup.st = "delivered"
    /\ getWalletAddress = Str("0xS1b")
    /\ call.st = "awaiting"

----------------------------------------------------------------------------
(* C5 *)

\* C5: what getWalletAddress() returns while the lookup is pending differs from
\* what it returns when the identity can never become available (the signer has
\* no getAddress, or the lookup failed).
C5_PendingDistinctFromAbsent ==
    (reads.pending # NotRead /\ reads.absent # NotRead) => reads.pending # reads.absent

----------------------------------------------------------------------------
(* C6 *)

\* C6: with a signing-server URL and all three local credentials in the builder
\* block, the builderConfig handed to the gateway client is remote signing with
\* that URL, in custodial and in externally-signed mode.
C6_RemoteSigningFirst ==
    (Constructed /\ HasSigningUrl /\ HasAllCredentials) =>
        client.builderConfig = RemoteSigning

\* A custodial client was built from a builder block with the URL and the credentials.
C6_Witness ==
    /\ CustodialMode
    /\ HasSigningUrl /\ HasAllCredentials
    /\ client.builderConfig.kind = "remote"

----------------------------------------------------------------------------
(* C7 *)

\* C7 as stated: in both modes, with no signing-server URL the builderConfig is
\* the local credentials when key, secret and passphrase are all present, and
\* none when one of them is missing or there is no builder block.
C7_AttributionSameInBothModes ==
    (Constructed /\ ~HasSigningUrl) =>
        client.builderConfig = IF HasAllCredentials THEN LocalCredentials ELSE Undef

\* C7 amended: with no signing-server URL, the builderConfig is the local
\* credentials in custodial mode when key, secret and passphrase are all present;
\* it is none in custodial mode when one of them is missing, and none in
\* externally-signed mode whatever the credentials.
C7_AttributionByMode ==
    (Constructed /\ ~HasSigningUrl) =>
        client.builderConfig =
            IF CustodialMode /\ HasAllCredentials THEN LocalCredentials ELSE Undef

\* A custodial client was built from a builder block with a key and a secret
\* and no passphrase.
C7_Witness ==
    /\ CustodialMode
    /\ ~HasSigningUrl
    /\ Truthy(Field(config.builder, "key")) /\ Truthy(Field(config.builder, "secret"))
    /\ ~Truthy(Field(config.builder, "passphrase"))
    /\ client.builderConfig = Undef

----------------------------------------------------------------------------
(* The Orders a read returned *)

\* The Orders in the value the settled call returned.
ReturnedOrders ==
    IF call.st # "returned" THEN {}
    ELSE IF call.op = "getOrder" /\ call.result.t = "object" THEN {call.result}
    ELSE IF call.op = "getOpenOrders"
         THEN {call.result.v[i] : i \in 1..Len(call.result.v)}
    ELSE {}

ParsedOriginal(o) == ParseFloat(o.raw.original_size)
ParsedMatched(o) == ParseFloat(o.raw.size_matched)

\* original_size and size_matched are numbers, and size_matched <= original_size.
SizesInOrder(o) ==
    /\ ParsedOriginal(o).t = "number"
    /\ ParsedMatched(o).t = "number"
    /\ ParsedMatched(o).v <= ParsedOriginal(o).v

RemainingIsDifference(o) ==
    /\ o.originalSize = ParsedOriginal(o)
    /\ o.size = Num(ParsedOriginal(o).v - ParsedMatched(o).v)
    /\ 0 <= o.size.v
    /\ o.size.v <= o.originalSize.v

\* A field the Order's numbers come from is missing or is no number.
Malformed(raw) ==
    \E f \in {"original_size", "size_matched", "price"} : ParseFloat(raw[f]) = NaN

----------------------------------------------------------------------------
(* C8 *)

----------------------------------------------------------------------------
(* C9 *)

\* C9: getOpenOrders and getOrder return no Order built from a record whose
\* original_size, size_matched or price is missing or is not parseable as a
\* number: on such a record they fail.
C9_MalformedRecordFails ==
    \A o \in ReturnedOrders : ~Malformed(o.raw)

----------------------------------------------------------------------------
(* C10 *)

GetOrderSettled ==
    /\ call.op = "getOrder"
    /\ call.st \in {"returned", "threw"}
    /\ Truthy(call.args)

NoSuchOrder == call.got.ok /\ call.got.value \in {Null, Undef}

TransportFailure ==
    /\ ~call.got.ok
    /\ call.got.error.t = "error"
    /\ call.got.error.kind = "transport"

\* C10: getOrder with a non-empty orderId returns null and throws nothing when
\* the gateway answers that there is no such order; it throws, and does not
\* return null, when the gateway call fails with a transport failure; null is
\* returned only on the gateway's answer, never on a failure.
C10_NotFoundIsNotFailure ==
    GetOrderSettled =>
        /\ NoSuchOrder => (call.st = "returned" /\ call.result = Null /\ call.error = Undef)
        /\ TransportFailure =>
               /\ call.st = "threw"
               /\ call.result = Undef
               /\ call.error = Error(GetOrderPrefix \o call.got.error.message)
        /\ (call.st = "returned" /\ call.result = Null) => NoSuchOrder

\* getOrder("O1") returned null on the gateway's answer null.
C10_Witness ==
    /\ GetOrderSettled
    /\ call.args = Str("O1")
    /\ call.got = Ok(Null)
    /\ call.st = "returned" /\ call.result = Null

\* getOrder("O1") threw on a transport failure.
C10_WitnessFailure ==
    /\ GetOrderSettled
    /\ TransportFailure
    /\ call.st = "threw"

----------------------------------------------------------------------------
(* C11 *)

\* The gateway's cancel methods among the calls the operation in flight made.
CancelCalls ==
    {i \in 1..Len(call.sent) : call.sent[i].method \in {"cancelOrder", "cancelOrders"}}

\* C11: cancelOrders with an empty or absent list, and cancelOrder with an empty
\* orderId, throw the wrapped validation message and make no gateway call, neither
\* before nor after they settle; cancelOrders with a non-empty list makes exactly
\* one gateway call, of cancelOrders, whose argument is the whole list.
C11_CancelValidatedAndBatched ==
    /\ (call.op = "cancelOrders" /\ call.args \in {Undef, Array(<<>>)}) =>
           /\ call.st = "threw"
           /\ call.sent = <<>>
           /\ call.error = Error(CancelOrdersPrefix \o MsgOrderIds)
    /\ (call.op = "cancelOrder" /\ call.args = Str("")) =>
           /\ call.st = "threw"
           /\ call.sent = <<>>
           /\ call.error = Error(CancelOrderPrefix \o MsgOrderId)
    /\ (call.op = "cancelOrders" /\ call.args \notin {Undef, Array(<<>>)}) =>
           /\ Cardinality(CancelCalls) = 1
           /\ call.sent = <<[method |-> "cancelOrders", arg |-> call.args]>>

\* cancelOrders(["O1", "O2"]) returned after one gateway call with both ids.
C11_Witness ==
    /\ call.op = "cancelOrders" /\ call.st = "returned"
    /\ call.args = Array(<<Str("O1"), Str("O2")>>)
    /\ Len(call.sent) = 1
    /\ call.sent[1].arg.v = <<Str("O1"), Str("O2")>>

----------------------------------------------------------------------------
(* C12 *)

\* A valid request: non-empty tokenId, side BUY or SELL, 0 < price < 1, size > 0.
ValidRequest(params) ==
    /\ params.tokenId.t = "string" /\ params.tokenId.v # ""
    /\ params.side \in {Str("BUY"), Str("SELL")}
    /\ params.price.t = "number" /\ 0 < params.price.v /\ params.price.v < Scale
    /\ params.size.t = "number" /\ 0 < params.size.v

\* The gateway answered the call with an object holding an order id and a status.
AnsweredWithIdAndStatus ==
    /\ call.st \in {"returned", "threw"}
    /\ call.got.ok
    /\ call.got.value.t = "object"
    /\ {"orderID", "status"} \subseteq DOMAIN call.got.value
    /\ call.got.value.orderID.t = "string" /\ call.got.value.orderID.v # ""
    /\ call.got.value.status.t = "string" /\ call.got.value.status.v # ""

\* C12: a valid placeOrder request makes exactly one gateway call,
\* createAndPostOrder, with the request's tokenId, price and size and the Side
\* member named by the request's side; when the gateway answers with an order id
\* and a status (non-empty), placeOrder returns exactly that order id and status.
C12_ValidOrderSentOnceAndEchoed ==
    (call.op = "placeOrder" /\ ValidRequest(call.args)) =>
        /\ Len(call.sent) = 1
        /\ call.sent[1].method = "createAndPostOrder"
        /\ call.sent[1].arg.tokenID = call.args.tokenId
        /\ call.sent[1].arg.side.v = "Side." \o call.args.side.v
        /\ call.sent[1].arg.price = call.args.price
        /\ call.sent[1].arg.size = call.args.size
        /\ AnsweredWithIdAndStatus =>
               /\ call.st = "returned"
               /\ call.result = [t |-> "object",
                                 orderId |-> call.got.value.orderID,
                                 status |-> call.got.value.status]

\* placeOrder({T1, BUY, 0.65, 10}) returned {O1, matched} on the gateway's
\* answer {orderID: O1, status: matched}.
C12_Witness ==
    /\ call.op = "placeOrder" /\ call.st = "returned"
    /\ call.args.tokenId = Str("T1") /\ call.args.side = Str("BUY")
    /\ call.args.price = Num(65) /\ call.args.size = Num(10 * Scale)
    /\ call.got = Ok([t |-> "object", orderID |-> Str("O1"), status |-> Str("matched")])
    /\ call.result = [t |-> "object", orderId |-> Str("O1"), status |-> Str("matched")]

----------------------------------------------------------------------------
(* C13 *)

\* The context each operation puts before the cause's message.
PrefixOf(op) ==
    CASE op = "placeOrder" -> PlaceOrderPrefix
      [] op = "cancelOrder" -> CancelOrderPrefix
      [] op = "cancelOrders" -> CancelOrdersPrefix
      [] op = "getOpenOrders" -> GetOpenOrdersPrefix
      [] OTHER -> GetOrderPrefix

\* The gateway call of the settled operation failed.
GatewayFailed ==
    /\ call.st \in {"returned", "threw"}
    /\ call.sent # <<>>
    /\ ~call.got.ok

\* The message of the cause; a thrown value that is no Error has none, and the
\* template string renders it as "undefined".
CauseMessage ==
    IF call.got.error.t = "error" THEN call.got.error.message ELSE "undefined"

\* C13: in each of the five operations a public call invokes the gateway at most
\* once; the gateway is invoked only when a public call starts, never when an
\* answer or a failure arrives (no retry); and a call whose gateway invocation
\* failed throws one Error, and returns nothing, whose message is the operation's
\* prefix followed by the message of the cause.
C13_FailuresWrappedNotRetried ==
    /\ [](Len(call.sent) <= 1)
    /\ [][call'.sent # call.sent =>
              (call.st = "idle" /\ call.sent = <<>>) \/ call' = Idle]_vars
    /\ [](GatewayFailed =>
             /\ call.st = "threw"
             /\ call.result = Undef
             /\ call.error = Error(PrefixOf(call.op) \o CauseMessage))

\* cancelOrders threw 'Failed to cancel orders: socket hang up' after one
\* gateway call that failed.
C13_Witness ==
    /\ call.op = "cancelOrders" /\ call.st = "threw"
    /\ Len(call.sent) = 1
    /\ call.got = Fail([t |-> "error", kind |-> "transport",
                        message |-> "socket hang up"])
    /\ call.error.message = "Failed to cancel orders: socket hang up"

----------------------------------------------------------------------------
(* C14 *)

\* The input of the operation in flight breaks a validation rule.
InvalidInput ==
    \/ call.op = "placeOrder" /\ BreaksRule(call.args)
    \/ call.op \in {"cancelOrder", "getOrder"} /\ call.args = Str("")
    \/ call.op = "cancelOrders" /\ call.args \in {Undef, Array(<<>>)}

\* An error reached a caller of the client: the constructor threw, an operation
\* threw, or getWalletAddress() answered with an error once the identity could
\* no longer become available.
ErrorDelivered ==
    \/ ctor.st = "threw"
    \/ call.st = "threw"
    \/ reads.absent.t = "error"

\* C14: every failure in the client ends in one error delivered to a caller: a
\* validation failure and a gateway failure make the operation throw one Error;
\* and when the signer's address lookup has failed, a caller who then reads the
\* identity has been delivered an error by the client.
C14_NoFailureSwallowed ==
    /\ (InvalidInput \/ GatewayFailed) =>
           (call.st = "threw" /\ call.error.t = "error" /\ call.result = Undef)
    /\ (lookup.st = "rejected" /\ reads.absent # NotRead) => ErrorDelivered

----------------------------------------------------------------------------
(* C15 *)

\* The payload carries the request's optional field name when the request has
\* one, with the same value, and has no such field when the request has none.
PassedThrough(payload, params, name) ==
    IF params[name] = Undef
    THEN name \notin DOMAIN payload
    ELSE name \in DOMAIN payload /\ payload[name] = params[name]

\* C15: for every valid placeOrder request the payload given to
\* createAndPostOrder has expiration equal to the request's when the request has
\* an expiration, 0 included, and no expiration field exactly when the request has
\* none; the same for nonce.
C15_OptionalFieldsPassedThrough ==
    (call.op = "placeOrder" /\ ValidRequest(call.args)) =>
        /\ Len(call.sent) = 1
        /\ PassedThrough(call.sent[1].arg, call.args, "expiration")
        /\ PassedThrough(call.sent[1].arg, call.args, "nonce")

----------------------------------------------------------------------------
(* C16 *)

\* The record has no status: the field is missing, null or the empty string.
NoStatus(raw) == raw.status \in {Undef, Null, Str("")}

\* The status of the Order built from raw, with the operation's default.
StatusOr(raw, default) == IF NoStatus(raw) THEN Str(default) ELSE raw.status

\* C16: an Order returned by getOpenOrders has status "open" when its record has
\* no status, an Order returned by getOrder has status "unknown" when its record
\* has none, and both have the record's status when it has one; the Order's raw
\* field is the record the gateway answered with, the i-th record for the i-th
\* Order of the list.
C16_StatusDefaultsAndRawKept ==
    /\ (call.op = "getOpenOrders" /\ call.st = "returned") =>
           /\ Len(call.result.v) = Len(call.got.value.v)
           /\ \A i \in 1..Len(call.result.v) :
                  /\ call.result.v[i].raw = call.got.value.v[i]
                  /\ call.result.v[i].status = StatusOr(call.got.value.v[i], "open")
    /\ (call.op = "getOrder" /\ call.st = "returned" /\ call.result # Null) =>
           /\ call.result.raw = call.got.value
           /\ call.result.status = StatusOr(call.got.value, "unknown")

\* getOpenOrders returned two Orders: "open" for a record with no status, and
\* "LIVE" for a record with that status.
C16_Witness ==
    /\ call.op = "getOpenOrders" /\ call.st = "returned"
    /\ Len(call.result.v) = 2
    /\ call.result.v[1].raw.status = Undef /\ call.result.v[1].status = Str("open")
    /\ call.result.v[2].raw.status = Str("LIVE") /\ call.result.v[2].status = Str("LIVE")

----------------------------------------------------------------------------
(* C17 *)

\* The same call made with address b: what it sends, and how it settles on the
\* answer the gateway gave to the call in flight.
WithAddress(b) == GetOpenOrdersStart(b)
SettledWithAddress(b, now) ==
    GetOpenOrdersAfter([WithAddress(b) EXCEPT !.got = call.got], call.got, now)

====
